---- MODULE Spec2Model ----
(***************************************************************************)
(* Model of the PythonMC bridge client (src/pythonmc.py).                  *)
(*                                                                         *)
(* PythonMCBridge.send_command writes one request line to stdout and then  *)
(* scans stdin line by line for the reply that carries the request's id.   *)
(* The host (the Java mod) is the environment: it writes lines to the      *)
(* script's stdin at any time and may close the stream.                    *)
(*                                                                         *)
(* One step of the model is one blocking point of the code: the start of   *)
(* a call up to the flushed print (SendCommand), and one iteration of the  *)
(* read loop (ReadLine), which ends the call when the code returns or      *)
(* raises in that iteration.  The call then is "Done": its result or its   *)
(* exception is in the caller's hands, and Return takes the caller on.     *)
(***************************************************************************)
EXTENDS Integers, Sequences, FiniteSets, TLC

(***************************************************************************)
(* Bounds of the model.                                                    *)
(***************************************************************************)
\* number of send_command calls made in one process run
MaxCalls == 2
\* number of lines the host may have written that the script has not read
MaxInbound == 1
\* the same number where the host's lines queue up behind one another
MaxBacklog == 2
\* number of operations a script may see fail before it ends: an exception
\* that the script does not catch ends it
MaxFailures == 1
\* the host writes marker lines only where they are read among the first
\* Burst or the last Burst lines of a scan (or by a later call); the lines
\* between are log output.  Every iteration of the read loop runs the same
\* code, so the first and the last iterations stand for all of them.
Burst == 2

(***************************************************************************)
(* Program constants.                                                      *)
(***************************************************************************)
\* timeout = 100  # Maximum lines to read before timeout
timeout == 100

(***************************************************************************)
(* JSON values, as far as the bridge looks at them.  A value is a record   *)
(* of its shape and a tag that tells values of one shape apart.            *)
(***************************************************************************)
Absent == [shape |-> "absent", val |-> 0]
Null == [shape |-> "null", val |-> 0]
EmptyMapping == [shape |-> "mapping", val |-> 0]
NodeMapping == [shape |-> "mapping", val |-> 1]
NodeSequence == [shape |-> "sequence", val |-> 1]

\* JSON values the facade looks into or builds: a mapping with its items, a
\* list with its elements, a number, a string, a boolean
Mapping(items) == [shape |-> "mapping", items |-> items]
List(elems) == [shape |-> "sequence", elems |-> elems]
Number(n) == [shape |-> "number", num |-> n]
Str(s) == [shape |-> "string", str |-> s]
Bool(b) == [shape |-> "boolean", bool |-> b]

\* the values a reply's "result" key may hold
ResultValues == {NodeMapping, NodeSequence, Null}

\* identifiers: uuid4 draws from UUIDs; the host may also send replies to
\* requests this process never issued (ForeignId) or replies without "id"
UUIDs == 1..MaxCalls
ForeignId == 0
NoId == -1

NoStatus == "(absent)"
NoError == "(absent)"
ErrorDetails == {"Node not found"}

(***************************************************************************)
(* Inbound lines.  marker: the stripped line starts with "BRIDGE:".        *)
(* form: what follows the marker (or the whole line when there is none):   *)
(*   "empty"   nothing (also what readline() yields at end of stream),     *)
(*   "text"    text that is not JSON,                                      *)
(*   "array"   JSON that is not an object,                                 *)
(*   "object"  a JSON object, whose keys are in obj.                       *)
(***************************************************************************)
NoObj == [id |-> NoId, status |-> NoStatus, result |-> Absent, error |-> NoError]

EmptyLine == [marker |-> FALSE, form |-> "empty", obj |-> NoObj]
NoiseLine == [marker |-> FALSE, form |-> "text", obj |-> NoObj]
GarbageLine == [marker |-> TRUE, form |-> "text", obj |-> NoObj]
NonObjectLine == [marker |-> TRUE, form |-> "array", obj |-> NoObj]

ReplyLine(o) == [marker |-> TRUE, form |-> "object", obj |-> o]

\* the reply objects a host may send for identifier id
ReplyObjects(id) ==
    {[id |-> id, status |-> "ok", result |-> r, error |-> NoError] :
        r \in ResultValues \cup {Absent}}
    \cup {[id |-> id, status |-> "error", result |-> Absent, error |-> e] :
        e \in ErrorDetails \cup {NoError}}
    \cup {[id |-> id, status |-> "error", result |-> NodeMapping, error |-> e] :
        e \in ErrorDetails}
    \cup {[id |-> id, status |-> s, result |-> NodeMapping, error |-> NoError] :
        s \in {NoStatus, "done"}}
    \cup {[id |-> id, status |-> NoStatus, result |-> Absent, error |-> NoError]}

\* the requests a caller may make: the facade's commands with their params
CallInputs ==
    {[command |-> "get_node", params |-> NodeMapping],
     [command |-> "list_nodes", params |-> EmptyMapping]}

(***************************************************************************)
(* State.                                                                  *)
(***************************************************************************)
VARIABLES
    bridge_enabled, \* PythonMCBridge.bridge_enabled
    stdout,         \* the lines printed so far (the outbound stream)
    stdin,          \* the lines written by the host and not yet read
    closed,         \* the host has closed the inbound stream
    pc,             \* "Idle": no call in progress; "Scanning": in the read loop;
                    \* "Done": the call has just returned or raised
    command,        \* send_command's parameter command
    params,         \* send_command's parameter params
    request_id,     \* send_command's local request_id
    nread,          \* readline() calls made by the current (or last) call
    outcome,        \* how the last call ended: [kind, value]
    matched,        \* the line on which the last call returned or raised
    calls,          \* send_command calls made so far
    reqState,       \* per identifier: the state of the request that carries it
    skipped,        \* the kinds of marker lines the current (or last) call discarded
    op,             \* the facade operation in progress: its name, arguments
                    \* and the send_command calls of its body
    fresult,        \* how the facade operation ended, once it has
    handle,         \* the node object the script holds
    deleted,        \* delete() has returned on that object
    failures,       \* facade operations that have failed so far
    hostNodes       \* the host's scene: per node id its name, type and
                    \* whether it still exists

facadeVars == <<op, fresult, handle, deleted, failures, hostNodes>>

vars == <<bridge_enabled, stdout, stdin, closed, pc, command, params,
          request_id, nread, outcome, matched, calls, reqState, skipped,
          op, fresult, handle, deleted, failures, hostNodes>>

NoCommand == "(none)"
NoHandle == [cls |-> "(none)", node_id |-> 0, name |-> "", node_type |-> ""]
NoOp == [name |-> "(none)", self |-> NoHandle, args |-> EmptyMapping, body |-> <<>>]

NoOutcome == [kind |-> "None", value |-> Absent, detail |-> NoError]
Raised(kind) == [kind |-> kind, value |-> Absent, detail |-> NoError]

(***************************************************************************)
(* The pieces of send_command.                                             *)
(***************************************************************************)
\* if not self.bridge_enabled: raise RuntimeError("Bridge is not enabled")
\* (variant: the check of the flag is missing)
DisabledNever == FALSE
Disabled == ~bridge_enabled

\* a call is a blocking function call of a single-threaded script: the
\* caller makes the next call only after this one has returned or raised
\* (variant: a call may start while another one is in progress)
CallerReadyAnytime == TRUE
CallerReady == pc = "Idle"

\* the identifiers written in request lines so far
Issued == {stdout[k].json.id : k \in 1..Len(stdout)}

\* request_id = str(uuid.uuid4()): a version-4 UUID, which no earlier draw
\* of the run returned.  The code only compares identifiers for equality,
\* so the least unused one stands for any fresh draw.
\* (variant: a draw may repeat an earlier one)
uuid4Reused == UUIDs
uuid4 == {id \in UUIDs \ Issued : \A other \in UUIDs \ Issued : id <= other}

\* request = {"id": request_id, "command": command, "params": params}
Request(id, cmd, prms) ==
    [id |-> id, command |-> cmd, params |-> prms]

\* message = "BRIDGE:" + json.dumps(request)
Message(request) == [prefix |-> "BRIDGE:", json |-> request]

\* print(message, flush=True)
\* (variant: the line is sent again)
PrintTwice(out, message) == Append(Append(out, message), message)
PrintLine(out, message) == Append(out, message)

\* sys.stdin.readline() returns a line when one is there, "" at end of
\* stream, and blocks otherwise
CanRead == stdin # <<>> \/ closed
readline == IF stdin # <<>> THEN Head(stdin) ELSE EmptyLine

\* what readline() leaves in the stream: the lines after the one it returned
\* (variant: the call drains the stream)
AfterReadDrained == <<>>
AfterRead == IF stdin # <<>> THEN Tail(stdin) ELSE stdin

\* line.startswith("BRIDGE:")
StartsWithMarker(line) == line.marker

\* json.loads(line[7:]) raises json.JSONDecodeError unless the rest is JSON
JsonLoadsFails(line) == line.form \in {"empty", "text"}

\* response.get(...) raises AttributeError unless the value is a dict
IsDict(line) == line.form = "object"

\* response.get("id") == request_id
\* (variants: any reply is taken; any reply to a request of this run is taken)
IdMatchesAny(response, rid) == TRUE
IdMatchesIssued(response, rid) == response.id \in Issued
IdMatches(response, rid) == response.id = rid

\* response.get("status") == "error"
\* (variants: the status is not looked at; every status but "ok" is an error)
IsErrorNever(response) == FALSE
IsErrorUnlessOk(response) == response.status # "ok"
IsError(response) == response.status = "error"

\* f"Bridge error: {response.get('error', 'Unknown error')}"
BridgeError(response) ==
    [kind |-> "HostError", value |-> Absent,
     detail |-> IF response.error = NoError THEN "Unknown error"
                ELSE response.error]

\* return response.get("result", {})
\* (variant: the default is returned whatever the reply holds)
ResultOfEmpty(response) == EmptyMapping
ResultOf(response) ==
    IF response.result = Absent THEN EmptyMapping ELSE response.result

Returned(value) == [kind |-> "Ok", value |-> value, detail |-> NoError]

\* for _ in range(timeout): the loop ends after the timeout-th iteration
\* (variant: one iteration more)
LoopExhaustedLate(n) == n > timeout
LoopExhausted(n) == n >= timeout

\* a line that is not the answer: the loop goes on, and after the last
\* iteration line 53 raises TimeoutError
\* (variant: an empty line ends the loop)
SkipStopsAtEof(line, n) ==
    IF line.form = "empty" \/ LoopExhausted(n) THEN Raised("Timeout")
    ELSE NoOutcome
Skip(line, n) == IF LoopExhausted(n) THEN Raised("Timeout") ELSE NoOutcome

(***************************************************************************)
(* Init: the module has been imported; Engine._bridge = PythonMCBridge()   *)
(* has read PYTHONMC_BRIDGE_ENABLED from the environment.                  *)
(***************************************************************************)
BridgeInit ==
    /\ bridge_enabled \in BOOLEAN
    /\ stdout = <<>>
    /\ stdin = <<>>
    /\ closed = FALSE
    /\ pc = "Idle"
    /\ command = NoCommand
    /\ params = Absent
    /\ request_id = NoId
    /\ nread = 0
    /\ outcome = NoOutcome
    /\ matched = EmptyLine
    /\ calls = 0
    /\ reqState = [id \in UUIDs |-> "Unused"]
    /\ skipped = {}

\* a script that calls send_command itself: no facade operation, no node
\* object, and a host whose scene plays no part
Init ==
    /\ BridgeInit
    /\ op = NoOp
    /\ fresult = NoOutcome
    /\ handle = NoHandle
    /\ deleted = FALSE
    /\ failures = 0
    /\ hostNodes = <<>>

(***************************************************************************)
(* send_command(command, params), up to the flushed print.                 *)
(***************************************************************************)
SendCommand(cmd, prms) ==
    /\ CallerReady
    /\ calls < MaxCalls
    /\ command' = cmd
    /\ params' = prms
    /\ IF Disabled
       THEN /\ outcome' = Raised("ChannelDisabled")
            /\ pc' = "Done"
            /\ nread' = 0
            /\ matched' = EmptyLine
            /\ UNCHANGED <<stdout, request_id, reqState>>
       ELSE \E id \in uuid4 :
            /\ request_id' = id
            /\ stdout' = PrintLine(stdout, Message(Request(id, cmd, prms)))
            /\ reqState' = [reqState EXCEPT ![id] = "Scanning"]
            /\ pc' = "Scanning"
            /\ nread' = 0
            /\ outcome' = NoOutcome
            /\ matched' = EmptyLine
    /\ calls' = calls + 1
    /\ skipped' = {}
    /\ UNCHANGED <<bridge_enabled, stdin, closed>>

(***************************************************************************)
(* One iteration of the read loop, with what follows it when it is the     *)
(* last one: the return, the raise, or the TimeoutError after the loop.    *)
(***************************************************************************)
\* how the iteration that reads `line` ends: an outcome, or NoOutcome when
\* the loop goes on
Iteration(line, rid, n) ==
    IF StartsWithMarker(line)
    THEN IF JsonLoadsFails(line) THEN Raised("JSONDecodeError")
         ELSE IF ~IsDict(line) THEN Raised("AttributeError")
         ELSE IF IdMatches(line.obj, rid)
              THEN IF IsError(line.obj) THEN BridgeError(line.obj)
                   ELSE Returned(ResultOf(line.obj))
              ELSE Skip(line, n)
    ELSE Skip(line, n)

StateAfter(kind) ==
    CASE kind = "None" -> "Scanning"
      [] kind = "Ok" -> "MatchedOk"
      [] kind = "HostError" -> "MatchedError"
      [] kind = "Timeout" -> "TimedOut"
      [] OTHER -> "Failed"

\* a reply to a request of this process that has timed out
IsLate(line) ==
    /\ line.marker
    /\ line.form = "object"
    /\ line.obj.id \in UUIDs
    /\ reqState[line.obj.id] = "TimedOut"

\* what a line is, whatever the code does with it
KindOf(line) ==
    CASE ~line.marker -> "noise"
      [] line.form # "object" -> "malformed"
      [] IsLate(line) -> "late"
      [] OTHER -> "reply"

ReadLine ==
    /\ pc = "Scanning"
    /\ CanRead
    /\ LET line == readline
           res == Iteration(line, request_id, nread + 1)
       IN /\ stdin' = AfterRead
          /\ nread' = nread + 1
          /\ outcome' = res
          /\ pc' = IF res.kind = "None" THEN "Scanning" ELSE "Done"
          /\ matched' = IF res.kind \in {"None", "Timeout"} THEN EmptyLine ELSE line
          /\ reqState' = [reqState EXCEPT ![request_id] = StateAfter(res.kind)]
          /\ skipped' = IF res.kind \in {"None", "Timeout"} /\ line.marker
                         THEN skipped \cup {KindOf(line)}
                         ELSE skipped
    /\ UNCHANGED <<bridge_enabled, stdout, closed, command, params,
                   request_id, calls>>

(***************************************************************************)
(* The call is over: send_command's locals are gone and the caller goes    *)
(* on with the value returned or the exception raised.                     *)
(***************************************************************************)
Return ==
    /\ pc = "Done"
    /\ pc' = "Idle"
    /\ command' = NoCommand
    /\ params' = Absent
    /\ request_id' = NoId
    /\ nread' = 0
    /\ outcome' = NoOutcome
    /\ matched' = EmptyLine
    /\ skipped' = {}
    /\ UNCHANGED <<bridge_enabled, stdout, stdin, closed, calls, reqState>>

(***************************************************************************)
(* The host: it writes log output and replies to the script's stdin, and   *)
(* may close it.  A reply echoes the id of a request the host has seen, or *)
(* carries an id this process never issued, or none.  The host closes the  *)
(* stream after its last line: the script sees the end of the stream only  *)
(* once it has read every line written before.  What the host writes while *)
(* a call returns, it writes as well right after: the host takes no step   *)
(* between the end of a call and Return.                                   *)
(***************************************************************************)
\* replies to the latest request come in every shape; replies that echo an
\* earlier request's id, a foreign id or no id are ok or error replies
LatestIssued == {id \in Issued : \A other \in Issued : other <= id}

StaleObjects(id) ==
    {[id |-> id, status |-> "ok", result |-> NodeMapping, error |-> NoError],
     [id |-> id, status |-> "error", result |-> Absent, error |-> "Node not found"]}

HostLines ==
    {NoiseLine, GarbageLine, NonObjectLine}
    \cup {ReplyLine(o) : o \in UNION {ReplyObjects(id) : id \in LatestIssued}}
    \cup {ReplyLine(o) : o \in UNION {StaleObjects(id) :
               id \in (Issued \ LatestIssued) \cup {ForeignId}}}
    \cup {ReplyLine([NoObj EXCEPT !.status = "ok", !.result = NodeMapping])}

\* the iteration of the current (or next) scan that will read a line
\* written now
PositionOfNext == (IF pc = "Scanning" THEN nread ELSE 0) + Len(stdin) + 1

InBurst(p) == p <= Burst \/ p > timeout - Burst

HostMayAct == ~closed /\ pc # "Done"

HostWrite(line) ==
    /\ HostMayAct
    /\ Len(stdin) < MaxInbound
    /\ line.marker => InBurst(PositionOfNext)
    /\ stdin' = Append(stdin, line)
    /\ UNCHANGED <<bridge_enabled, stdout, closed, pc, command, params,
                   request_id, nread, outcome, matched, calls, reqState,
                   skipped>>

HostClose ==
    /\ HostMayAct
    /\ stdin = <<>>
    /\ closed' = TRUE
    /\ UNCHANGED <<bridge_enabled, stdout, stdin, pc, command, params,
                   request_id, nread, outcome, matched, calls, reqState,
                   skipped>>

Next ==
    \/ (\E c \in CallInputs : SendCommand(c.command, c.params))
           /\ UNCHANGED facadeVars
    \/ ReadLine /\ UNCHANGED facadeVars
    \/ Return /\ UNCHANGED facadeVars
    \/ (\E line \in HostLines : HostWrite(line)) /\ UNCHANGED facadeVars
    \/ HostClose /\ UNCHANGED facadeVars

Spec == Init /\ [][Next]_vars

(***************************************************************************)
(* The inbound stream alone: an enabled bridge, one kind of request, and a *)
(* host that writes log lines and replies at any position of the stream,   *)
(* several of them ahead of the reader.                                    *)
(***************************************************************************)
StreamObjects(id) ==
    {[id |-> id, status |-> "ok", result |-> NodeSequence, error |-> NoError]}

StreamLines ==
    {NoiseLine} \cup {ReplyLine(o) : o \in UNION {StreamObjects(id) : id \in Issued}}

HostFeed(line) ==
    /\ HostMayAct
    /\ Len(stdin) < MaxBacklog
    /\ stdin' = Append(stdin, line)
    /\ UNCHANGED <<bridge_enabled, stdout, closed, pc, command, params,
                   request_id, nread, outcome, matched, calls, reqState,
                   skipped>>

InitStream == Init /\ bridge_enabled

NextStream ==
    \/ SendCommand("list_nodes", EmptyMapping) /\ UNCHANGED facadeVars
    \/ ReadLine /\ UNCHANGED facadeVars
    \/ Return /\ UNCHANGED facadeVars
    \/ (\E line \in StreamLines : HostFeed(line)) /\ UNCHANGED facadeVars
    \/ HostClose /\ UNCHANGED facadeVars

SpecStream == InitStream /\ [][NextStream]_vars

(***************************************************************************)
(* The facade: Engine, Node, CameraNode, AudioPlayerNode.  Every method is *)
(* the sequence of send_command calls its body makes, each with the        *)
(* command and the params it passes, and what it makes of the value that   *)
(* send_command returned.                                                  *)
(***************************************************************************)
\* one send_command(command, params) call
Call(cmd, prms) == [command |-> cmd, params |-> prms]

\* Node.__init__(node_id, name, node_type), by class
Node(node_id, name, node_type) ==
    [cls |-> "Node", node_id |-> node_id, name |-> name, node_type |-> node_type]
CameraNode(node_id, name, node_type) ==
    [cls |-> "CameraNode", node_id |-> node_id, name |-> name,
     node_type |-> node_type]
AudioPlayerNode(node_id, name, node_type) ==
    [cls |-> "AudioPlayerNode", node_id |-> node_id, name |-> name,
     node_type |-> node_type]
New(cls, node_id, name, node_type) ==
    CASE cls = "CameraNode" -> CameraNode(node_id, name, node_type)
      [] cls = "AudioPlayerNode" -> AudioPlayerNode(node_id, name, node_type)
      [] OTHER -> Node(node_id, name, node_type)

\* Engine
get_node(node_name) == <<Call("get_node", [node_name |-> node_name])>>

create_node(node_type, node_name, parent) ==
    <<Call("create_node", [node_type |-> node_type, node_name |-> node_name,
                           parent |-> parent])>>

list_nodes == <<Call("list_nodes", EmptyMapping)>>

\* Node
set_property(self, property, value) ==
    <<Call("set_property", [node_id |-> self.node_id, property |-> property,
                            value |-> value])>>

get_property(self, property) ==
    <<Call("get_property", [node_id |-> self.node_id, property |-> property])>>

call_method(self, method, args) ==
    <<Call("call_method", [node_id |-> self.node_id, method |-> method,
                           args |-> List(args)])>>

\* (variant: delete() only marks the object, nothing is sent)
deleteLocally(self) == <<>>
delete(self) == <<Call("delete_node", [node_id |-> self.node_id])>>

\* CameraNode
\* (variant: the coordinates are sent as x, z, y)
moveSwapped(self, x, y, z) == set_property(self, "position", List(<<x, z, y>>))
move(self, x, y, z) == set_property(self, "position", List(<<x, y, z>>))
rotate(self, yaw, pitch) == set_property(self, "rotation", List(<<yaw, pitch>>))
set_fov(self, fov) == set_property(self, "fov", Number(fov))
attach_to_player(self) == call_method(self, "attachToPlayer", <<>>)
detach_from_player(self) == call_method(self, "detachFromPlayer", <<>>)

\* AudioPlayerNode
play(self) == call_method(self, "play", <<>>)
stop(self) == call_method(self, "stop", <<>>)
set_sound(self, sound_id) == set_property(self, "soundId", Str(sound_id))
set_volume(self, volume) == set_property(self, "volume", Number(volume))
set_pitch(self, pitch) == set_property(self, "pitch", Number(pitch))
set_loop(self, loop) == set_property(self, "loop", Bool(loop))
set_position(self, x, y, z) == set_property(self, "position", List(<<x, y, z>>))

\* what the methods make of the value returned by send_command
IsMapping(value) == value.shape = "mapping"
Has(value, key) ==
    /\ IsMapping(value)
    /\ "items" \in DOMAIN value
    /\ key \in DOMAIN value.items

\* cls(result["node_id"], result.get("node_name", ""), result["node_type"])
from_result(cls, result) ==
    IF ~Has(result, "node_id") \/ ~Has(result, "node_type")
    THEN Raised("KeyError")
    ELSE Returned(New(cls, result.items.node_id,
                      IF Has(result, "node_name") THEN result.items.node_name
                      ELSE "",
                      result.items.node_type))

\* the class get_node and create_node pick for a node type
\* (variant: every node is wrapped as a plain Node)
ClassOfPlain(node_type) == "Node"
ClassOf(node_type) ==
    CASE node_type \in {"CameraNode", "Camera3D"} -> "CameraNode"
      [] node_type \in {"AudioPlayerNode", "AudioPlayer"} -> "AudioPlayerNode"
      [] OTHER -> "Node"

\* get_node, lines 79-86: result.get("node_type") needs a mapping
get_node_returns(result) ==
    IF ~IsMapping(result) THEN Raised("AttributeError")
    ELSE from_result(IF Has(result, "node_type")
                     THEN ClassOf(result.items.node_type)
                     ELSE "Node",
                     result)

\* create_node, lines 111-116: the class by the caller's node_type, the
\* name and type as passed, the id as result["node_id"]
create_node_returns(node_type, node_name, result) ==
    IF ~IsMapping(result) THEN Raised("TypeError")
    ELSE IF ~Has(result, "node_id") THEN Raised("KeyError")
    ELSE Returned(New(ClassOf(node_type), result.items.node_id, node_name,
                      node_type))

\* list_nodes, line 127: return result if isinstance(result, list) else []
\* (variant: the result is returned whatever it is)
list_nodes_returnsAny(result) == Returned(result)
list_nodes_returns(result) ==
    IF result.shape = "sequence" THEN Returned(result) ELSE Returned(List(<<>>))

\* get_property, line 176: return result.get("value")
get_property_returns(result) ==
    IF ~IsMapping(result) THEN Raised("AttributeError")
    ELSE IF Has(result, "value") THEN Returned(result.items.value)
    ELSE Returned(Null)

\* how a facade operation ends once its send_command call has ended with
\* out: an exception goes up to the caller as it is; a value is handed to
\* the rest of the method (methods without a return statement return None)
\* (variant: a failed call makes the operation return None)
FinishSwallows(o, out) ==
    IF out.kind # "Ok" THEN Returned(Null)
    ELSE CASE o.name = "get_node" -> get_node_returns(out.value)
           [] o.name = "create_node" ->
                create_node_returns(o.args.node_type, o.args.node_name, out.value)
           [] o.name = "list_nodes" -> list_nodes_returns(out.value)
           [] o.name = "get_property" -> get_property_returns(out.value)
           [] o.name = "call_method" -> Returned(out.value)
           [] OTHER -> Returned(Null)
Finish(o, out) ==
    IF out.kind # "Ok" THEN out
    ELSE CASE o.name = "get_node" -> get_node_returns(out.value)
           [] o.name = "create_node" ->
                create_node_returns(o.args.node_type, o.args.node_name, out.value)
           [] o.name = "list_nodes" -> list_nodes_returns(out.value)
           [] o.name = "get_property" -> get_property_returns(out.value)
           [] o.name = "call_method" -> Returned(out.value)
           [] OTHER -> Returned(Null)

(***************************************************************************)
(* The operations a script invokes, with their arguments.                  *)
(***************************************************************************)
NodeNames == {"BGM", "Main"}
NewNodeNames == {"BGM"}
NodeTypes == {"AudioPlayer", "Camera3D", "Sprite"}
Positions == {<<100, 70, 200>>, <<-1, 0, -2>>}

Invocation(name, self, args, body) ==
    [name |-> name, self |-> self, args |-> args, body |-> body]

EngineOps ==
    {Invocation("get_node", NoHandle, [node_name |-> n], get_node(n)) :
        n \in NodeNames}
    \cup {Invocation("create_node", NoHandle,
                     [node_type |-> t, node_name |-> n], create_node(t, n, "Root")) :
            t \in NodeTypes, n \in NewNodeNames}
    \cup {Invocation("list_nodes", NoHandle, EmptyMapping, list_nodes)}

NodeOps(h) ==
    {Invocation("set_property", h, EmptyMapping,
                set_property(h, "visible", Bool(TRUE))),
     Invocation("get_property", h, EmptyMapping, get_property(h, "position")),
     Invocation("call_method", h, EmptyMapping, call_method(h, "lookAt", <<0, 64>>)),
     Invocation("delete", h, EmptyMapping, delete(h))}

CameraOps(h) ==
    {Invocation("move", h, [x |-> p[1], y |-> p[2], z |-> p[3]],
                move(h, p[1], p[2], p[3])) : p \in Positions}
    \cup {Invocation("rotate", h, EmptyMapping, rotate(h, 90, -45)),
          Invocation("set_fov", h, EmptyMapping, set_fov(h, 70)),
          Invocation("attach_to_player", h, EmptyMapping, attach_to_player(h)),
          Invocation("detach_from_player", h, EmptyMapping, detach_from_player(h))}

AudioOps(h) ==
    {Invocation("play", h, EmptyMapping, play(h)),
     Invocation("stop", h, EmptyMapping, stop(h)),
     Invocation("set_sound", h, EmptyMapping, set_sound(h, "music.disc")),
     Invocation("set_volume", h, EmptyMapping, set_volume(h, 1)),
     Invocation("set_pitch", h, EmptyMapping, set_pitch(h, 2)),
     Invocation("set_loop", h, EmptyMapping, set_loop(h, TRUE)),
     Invocation("set_position", h, EmptyMapping, set_position(h, 100, 70, 200))}

\* the operations open to a script that holds the node object h
Invocations(h) ==
    EngineOps
    \cup (IF h = NoHandle THEN {} ELSE NodeOps(h))
    \cup (IF h.cls = "CameraNode" THEN CameraOps(h) ELSE {})
    \cup (IF h.cls = "AudioPlayerNode" THEN AudioOps(h) ELSE {})

(***************************************************************************)
(* A facade operation: the call, the end of its body once send_command has *)
(* returned or raised, and the return to the script, which keeps the node  *)
(* object that get_node or create_node returned.  A script ends with the   *)
(* MaxFailures-th exception.                                               *)
(***************************************************************************)
FacadeCall(o) ==
    /\ op = NoOp
    /\ failures < MaxFailures
    /\ Len(o.body) = 1
    /\ SendCommand(o.body[1].command, o.body[1].params)
    /\ op' = o
    /\ fresult' = NoOutcome
    /\ UNCHANGED <<handle, deleted, failures, hostNodes>>

FacadeFinish ==
    /\ op # NoOp
    /\ pc = "Done"
    /\ fresult = NoOutcome
    /\ fresult' = Finish(op, outcome)
    /\ UNCHANGED <<op, handle, deleted, failures, hostNodes>>
    /\ UNCHANGED <<bridge_enabled, stdout, stdin, closed, pc, command, params,
                   request_id, nread, outcome, matched, calls, reqState,
                   skipped>>

\* no method of Node assigns to self: the object is after the call what it
\* was before
\* (variant: delete() clears the object's node_id)
SelfAfterCleared(o, self) ==
    IF o.name = "delete" THEN [self EXCEPT !.node_id = 0] ELSE self
SelfAfter(o, self) == self

ReturnsNode(o, res) == o.name \in {"get_node", "create_node"} /\ res.kind = "Ok"

FacadeReturn ==
    /\ op # NoOp
    /\ fresult # NoOutcome
    /\ Return
    /\ handle' = IF ReturnsNode(op, fresult) THEN fresult.value
                 ELSE SelfAfter(op, handle)
    /\ deleted' = IF ReturnsNode(op, fresult) THEN FALSE
                  ELSE IF op.name = "delete" /\ fresult.kind = "Ok" THEN TRUE
                  ELSE deleted
    /\ failures' = IF fresult.kind = "Ok" THEN failures ELSE failures + 1
    /\ op' = NoOp
    /\ fresult' = NoOutcome
    /\ UNCHANGED hostNodes

(***************************************************************************)
(* The host of the facade's requests: it keeps the scene's nodes, answers  *)
(* each request once, with a reply that carries the request's id, and does *)
(* what an ok reply says it did.  It may answer any request with an error, *)
(* and a request on a node with ok whether it still has the node or not.   *)
(* The host may go away, closing the stream, whenever no call is in         *)
(* progress.                                                               *)
(***************************************************************************)
Ok(id, result) == [id |-> id, status |-> "ok", result |-> result, error |-> NoError]
Err(id, detail) == [id |-> id, status |-> "error", result |-> Absent, error |-> detail]

Named(nodes, name) == {id \in 1..Len(nodes) : nodes[id].alive /\ nodes[id].node_name = name}

\* the names the host has for a node type
KindNames(node_type) ==
    CASE node_type = "Camera3D" -> {"Camera3D", "CameraNode"}
      [] node_type = "AudioPlayer" -> {"AudioPlayer", "AudioPlayerNode"}
      [] OTHER -> {node_type}

\* what a host may send as the result of list_nodes
ListResults(nodes) ==
    {List([i \in 1..Len(nodes) |-> nodes[i].node_name]),
     Mapping([count |-> Len(nodes)]), Str("no nodes"), Number(0), Null, Absent}

\* the ok answers to a request: the reply's result and the scene afterwards
OkAnswers(req, nodes) ==
    CASE req.command = "get_node" ->
           {[result |-> Mapping([node_id |-> id,
                                 node_name |-> nodes[id].node_name,
                                 node_type |-> k]),
             nodes |-> nodes] :
               id \in Named(nodes, req.params.node_name),
               k \in UNION {KindNames(nodes[i].node_type) :
                              i \in Named(nodes, req.params.node_name)}}
      [] req.command = "create_node" ->
           IF Named(nodes, req.params.node_name) # {} THEN {}
           ELSE {[result |-> Mapping([node_id |-> Len(nodes) + 1]),
                  nodes |-> Append(nodes, [node_name |-> req.params.node_name,
                                           node_type |-> req.params.node_type,
                                           alive |-> TRUE])]}
      [] req.command = "list_nodes" ->
           {[result |-> r, nodes |-> nodes] : r \in ListResults(nodes)}
      [] req.command = "delete_node" ->
           {[result |-> Absent,
             nodes |-> [id \in 1..Len(nodes) |->
                          IF id = req.params.node_id
                          THEN [nodes[id] EXCEPT !.alive = FALSE]
                          ELSE nodes[id]]]}
      [] req.command = "get_property" ->
           {[result |-> r, nodes |-> nodes] :
               r \in {Mapping([value |-> List(<<0, 64, 0>>)]), Null}}
      [] OTHER -> {[result |-> Absent, nodes |-> nodes]}

HostReply ==
    /\ HostMayAct
    /\ pc = "Scanning"
    /\ stdin = <<>>
    /\ LET req == stdout[Len(stdout)].json
       IN \/ \E a \in OkAnswers(req, hostNodes) :
               /\ stdin' = <<ReplyLine(Ok(req.id, a.result))>>
               /\ hostNodes' = a.nodes
          \/ /\ stdin' = <<ReplyLine(Err(req.id, "Node not found"))>>
             /\ hostNodes' = hostNodes
    /\ UNCHANGED <<bridge_enabled, stdout, closed, pc, command, params,
                   request_id, nread, outcome, matched, calls, reqState,
                   skipped>>
    /\ UNCHANGED <<op, fresult, handle, deleted, failures>>

HostGone ==
    /\ pc = "Idle"
    /\ HostClose
    /\ UNCHANGED facadeVars

\* the scene holds the main camera; the script starts without a node
\* object or with one it made for the main camera
MainCamera == [node_name |-> "Main", node_type |-> "Camera3D", alive |-> TRUE]

InitFacade ==
    /\ BridgeInit
    /\ op = NoOp
    /\ fresult = NoOutcome
    /\ handle \in {NoHandle, CameraNode(1, "Main", "Camera3D")}
    /\ deleted = FALSE
    /\ failures = 0
    /\ hostNodes = <<MainCamera>>

NextFacade ==
    \/ \E o \in Invocations(handle) : FacadeCall(o)
    \/ ReadLine /\ UNCHANGED facadeVars
    \/ FacadeFinish
    \/ FacadeReturn
    \/ HostReply
    \/ HostGone

SpecFacade == InitFacade /\ [][NextFacade]_vars

(***************************************************************************)
(* Properties.                                                             *)
(***************************************************************************)
\* a step that is one iteration of the read loop; it reads `readline`
ReadStep == pc = "Scanning" /\ nread' = nread + 1

\* a well-formed reply that carries the outstanding request's identifier
OwnReply(line) ==
    line.marker /\ line.form = "object" /\ line.obj.id = request_id

\* a well-formed reply that carries another identifier, or none
OtherReply(line) ==
    line.marker /\ line.form = "object" /\ line.obj.id # request_id

Answered == pc = "Done" /\ outcome.kind \in {"Ok", "HostError"}

\* C1: on a disabled bridge every call fails with ChannelDisabled at once;
\* nothing is ever written to the outbound stream and no inbound line is
\* read: the inbound stream only grows by what the host writes.
C1_DisabledNoIO ==
    /\ [](~bridge_enabled =>
            /\ stdout = <<>>
            /\ nread = 0
            /\ pc # "Scanning"
            /\ (pc = "Done" => outcome.kind = "ChannelDisabled"))
    /\ [][~bridge_enabled =>
            /\ stdout' = stdout
            /\ \/ stdin' = stdin
               \/ \E line \in HostLines : stdin' = Append(stdin, line)]_vars

C1_Witness ==
    /\ ~bridge_enabled
    /\ pc = "Done"
    /\ calls = MaxCalls
    /\ outcome.kind = "ChannelDisabled"
    /\ stdin # <<>>

\* C2: a call that returns a result or a host error does so on a reply that
\* carries its own identifier; a reply with another identifier never ends
\* the scan (but for the read bound), and the own reply read later does.
C2_MismatchNeverReturned ==
    /\ [](Answered => OwnReply(matched))
    /\ [][ReadStep =>
            /\ OtherReply(readline) =>
                 /\ outcome'.kind \in {"None", "Timeout"}
                 /\ outcome'.kind = "Timeout" => nread' = timeout
            /\ OwnReply(readline) =>
                 /\ outcome'.kind \in {"Ok", "HostError"}
                 /\ matched' = readline]_vars

C2_Witness ==
    /\ pc = "Done"
    /\ outcome.kind = "Ok"
    /\ "reply" \in skipped
    /\ OwnReply(matched)
    /\ outcome.value = matched.obj.result

\* C3: an enabled call reads at most 100 lines, and when none of the lines
\* it read is a reply with its identifier it ends with Timeout.
C3_TimeoutWhenUnanswered ==
    /\ nread <= timeout
    /\ (pc = "Done" /\ bridge_enabled /\ ~OwnReply(matched))
           => outcome.kind = "Timeout"

\* C4: the own reply with status "error" ends the call with a HostError
\* that carries the reply's error detail and no result, whatever the
\* reply's result key holds.
C4_ErrorReplyRaises ==
    [][(ReadStep /\ OwnReply(readline) /\ readline.obj.status = "error") =>
            /\ outcome'.kind = "HostError"
            /\ outcome'.value = Absent
            /\ readline.obj.error # NoError =>
                 outcome'.detail = readline.obj.error]_vars

C4_Witness ==
    /\ pc = "Done"
    /\ outcome.kind = "HostError"
    /\ outcome.detail = "Node not found"
    /\ OwnReply(matched)
    /\ matched.obj.result = NodeMapping

\* C5: no call ends on a marker line whose remainder is not a JSON object:
\* such a line is discarded and the scan goes on.
C5_MalformedSkipped ==
    pc = "Done" => KindOf(matched) # "malformed"

\* C6: once a request has timed out it stays timed out; a later call that
\* reads a reply carrying its identifier discards it, never ends on it,
\* and still ends on its own reply when that follows.
C6_TimedOutNeverMatched ==
    /\ [](Answered =>
            /\ matched.obj.id \in UUIDs
            /\ reqState[matched.obj.id] # "TimedOut")
    /\ [][\A id \in UUIDs :
            reqState[id] = "TimedOut" => reqState'[id] = "TimedOut"]_vars
    /\ [][ReadStep =>
            /\ IsLate(readline) => outcome'.kind \in {"None", "Timeout"}
            /\ ("late" \in skipped /\ OwnReply(readline)) =>
                 /\ outcome'.kind \in {"Ok", "HostError"}
                 /\ matched' = readline]_vars

C6_Witness ==
    /\ pc = "Done"
    /\ "late" \in skipped
    /\ outcome.kind = "Ok"
    /\ OwnReply(matched)

\* C7: on an enabled bridge the outbound stream holds exactly one line per
\* call made, in every state of the call (before its first read, while it
\* scans, and however it ended); each line is "BRIDGE:" and a JSON object
\* of the keys id, command, params, and the last one is the current call's.
C7_OneLinePerCall ==
    bridge_enabled =>
        /\ Len(stdout) = calls
        /\ \A k \in 1..Len(stdout) :
             /\ stdout[k].prefix = "BRIDGE:"
             /\ DOMAIN stdout[k].json = {"id", "command", "params"}
        /\ pc \in {"Scanning", "Done"} =>
             stdout[Len(stdout)].json =
                 [id |-> request_id, command |-> command, params |-> params]

C7_Witness ==
    /\ pc = "Done"
    /\ outcome.kind = "Timeout"
    /\ Len(stdout) = 2
    /\ \E id \in UUIDs : reqState[id] = "MatchedError"

\* C8: the own reply with status "ok" ends the call with the reply's result
\* as the value returned, and with the empty mapping when the reply has no
\* result key.
C8_OkReplyReturnsResult ==
    [][(ReadStep /\ OwnReply(readline) /\ readline.obj.status = "ok") =>
            /\ outcome'.kind = "Ok"
            /\ outcome'.value = IF readline.obj.result = Absent
                                THEN EmptyMapping
                                ELSE readline.obj.result]_vars

C8_Witness ==
    /\ pc = "Done"
    /\ outcome = Returned(NodeSequence)
    /\ OwnReply(matched)
    /\ matched.obj.status = "ok"
    /\ matched.obj.result = NodeSequence

C19_OnlyErrorStatusFails ==
    (pc = "Done" /\ OwnReply(matched)) =>
        /\ outcome.kind = "HostError" <=> matched.obj.status = "error"
        /\ matched.obj.status # "error" =>
             outcome = Returned(IF matched.obj.result = Absent
                                THEN EmptyMapping
                                ELSE matched.obj.result)

C19_Witness ==
    /\ pc = "Done"
    /\ outcome = Returned(EmptyMapping)
    /\ OwnReply(matched)
    /\ matched.obj.status = NoStatus
    /\ matched.obj.result = Absent

\* C17: every line read counts against the bound of 100, noise and other
\* requests' replies alike; the own reply read as one of the first 100 lines
\* ends the call with its result; the 100th line read that is not the own
\* reply ends it with Timeout, and nothing is read after it, an own reply
\* further on in the stream included.
C17_BoundCountsEveryLine ==
    /\ [](/\ nread <= timeout
          /\ (pc = "Done" /\ outcome.kind = "Timeout") => nread = timeout)
    /\ [][ReadStep =>
            /\ OwnReply(readline) => outcome'.kind \in {"Ok", "HostError"}
            /\ (~readline.marker \/ OtherReply(readline)) =>
                 outcome' = IF nread' = timeout THEN Raised("Timeout")
                            ELSE NoOutcome]_vars
    /\ [][pc = "Done" => stdin' = stdin /\ nread' \in {nread, 0}]_vars

C17_Witness ==
    /\ pc = "Done"
    /\ outcome.kind = "Timeout"
    /\ nread = timeout
    /\ stdin # <<>>
    /\ OwnReply(Head(stdin))

\* C18: a read takes exactly the first unread line off the stream, and the
\* read of the own reply is the call's last; the lines behind the reply
\* stay in the stream in their order, for the next call to read first, and
\* no line comes back once it was read.
C18_StopsAtOwnReply ==
    /\ [][ReadStep =>
            /\ stdin # <<>> => stdin' = Tail(stdin)
            /\ OwnReply(readline) => pc' = "Done"]_vars
    /\ [][Len(stdin') < Len(stdin) => ReadStep]_vars
    /\ [][~ReadStep =>
            \/ stdin' = stdin
            \/ \E line \in StreamLines : stdin' = Append(stdin, line)]_vars

C18_Witness ==
    /\ Answered
    /\ OwnReply(matched)
    /\ skipped # {}
    /\ stdin # <<>>

\* C20: a read at the end of the stream counts as one line read and ends
\* the call only as the last read of the bound does, with Timeout; the
\* stream stays at its end.
C20_EndOfStreamCounts ==
    [][(ReadStep /\ stdin = <<>>) =>
            /\ closed /\ closed'
            /\ stdin' = <<>>
            /\ nread' <= timeout
            /\ outcome' = IF nread' = timeout THEN Raised("Timeout")
                          ELSE NoOutcome]_vars

C20_Witness ==
    /\ pc = "Done"
    /\ closed
    /\ stdin = <<>>
    /\ outcome.kind = "Timeout"
    /\ nread = timeout
    /\ skipped = {}

(***************************************************************************)
(* Properties of the facade.                                               *)
(***************************************************************************)
\* the body of the operation has ended, the script has not gone on yet
Finished == op # NoOp /\ fresult # NoOutcome

\* the request line of the operation in progress
LastRequest == stdout[Len(stdout)].json

\* C11: list_nodes on a reply that ended its call successfully returns the
\* reply's result itself when that is a list, and the empty list, without
\* failing, when it is a mapping, a string, a number, null or missing.
C11_ListNodesNormalises ==
    (Finished /\ op.name = "list_nodes" /\ outcome.kind = "Ok") =>
        IF matched.obj.result.shape = "sequence"
        THEN fresult = Returned(matched.obj.result)
        ELSE fresult = Returned(List(<<>>))

C11_Witness ==
    /\ Finished
    /\ op.name = "list_nodes"
    /\ matched.obj.status = "ok"
    /\ matched.obj.result = Null
    /\ fresult = Returned(List(<<>>))

\* C12: create_node("AudioPlayer", "BGM") returns an AudioPlayerNode named
\* "BGM" with the node_id of the host's reply; while the script holds it,
\* get_node("BGM"), answered by the host from its scene, returns an
\* AudioPlayerNode with the name "BGM" and the same node_id.
C12_CreateThenGet ==
    /\ (/\ Finished
        /\ op.name = "create_node"
        /\ op.args = [node_type |-> "AudioPlayer", node_name |-> "BGM"]
        /\ outcome.kind = "Ok")
         => fresult = Returned(AudioPlayerNode(matched.obj.result.items.node_id,
                                               "BGM", "AudioPlayer"))
    /\ (/\ Finished
        /\ op.name = "get_node"
        /\ op.args.node_name = "BGM"
        /\ handle = AudioPlayerNode(handle.node_id, "BGM", "AudioPlayer")
        /\ outcome.kind = "Ok")
         => /\ fresult.kind = "Ok"
            /\ fresult.value.cls = "AudioPlayerNode"
            /\ fresult.value.name = "BGM"
            /\ fresult.value.node_id = handle.node_id

C12_Witness ==
    /\ Finished
    /\ Len(stdout) = 2
    /\ stdout[1].json.command = "create_node"
    /\ stdout[1].json.params.node_type = "AudioPlayer"
    /\ stdout[1].json.params.node_name = "BGM"
    /\ op.name = "get_node"
    /\ op.args.node_name = "BGM"
    /\ fresult.kind = "Ok"
    /\ fresult.value.cls = "AudioPlayerNode"
    /\ fresult.value.name = "BGM"
    /\ fresult.value.node_id = handle.node_id
    /\ fresult.value.node_type = "AudioPlayerNode"

\* C13: while move(x, y, z) is in progress on an enabled bridge, the last
\* request line is the set_property request with the object's node_id, the
\* property "position" and the value [x, y, z], the numbers as passed.
C13_MoveSendsPosition ==
    (op.name = "move" /\ bridge_enabled) =>
        LastRequest = Request(request_id, "set_property",
                              [node_id |-> op.self.node_id,
                               property |-> "position",
                               value |-> List(<<op.args.x, op.args.y, op.args.z>>)])

C13_Witness ==
    /\ pc = "Scanning"
    /\ op.name = "move"
    /\ op.args = [x |-> 100, y |-> 70, z |-> 200]
    /\ LastRequest.command = "set_property"
    /\ LastRequest.params.property = "position"
    /\ LastRequest.params.value = List(<<100, 70, 200>>)

\* C14: the body of every facade operation makes one send_command call:
\* the step that invokes an operation makes one call, which on an enabled
\* bridge writes one request line, and no other step of the operation, up
\* to its return, makes a call or writes a line, however it ends.
C14_OneCallPerOperation ==
    /\ [](\A o \in Invocations(handle) : Len(o.body) = 1)
    /\ [][(op = NoOp /\ op' # NoOp) =>
            /\ calls' = calls + 1
            /\ Len(stdout') = Len(stdout) + (IF bridge_enabled THEN 1 ELSE 0)]_vars
    /\ [][~(op = NoOp /\ op' # NoOp) =>
            /\ calls' = calls
            /\ stdout' = stdout]_vars

C14_Witness ==
    /\ Finished
    /\ fresult.kind = "HostError"
    /\ op.name = "play"
    /\ calls = 2
    /\ Len(stdout) = 2

\* C15: a facade operation whose send_command call raised ChannelDisabled,
\* Timeout or HostError ends with that very exception and with no value,
\* and the node object the script holds changes only when an operation has
\* returned a node.
C15_ErrorsPassThrough ==
    /\ []((Finished /\ outcome.kind \in {"ChannelDisabled", "Timeout", "HostError"})
            => /\ fresult = outcome
               /\ fresult.value = Absent)
    /\ [][handle' # handle => (Finished /\ fresult.kind = "Ok")]_vars

C15_Witness ==
    /\ Finished
    /\ op.name = "get_node"
    /\ handle # NoHandle
    /\ outcome.kind = "Timeout"
    /\ fresult = Raised("Timeout")

====
